---- MODULE Spec2Model ----
(***************************************************************************)
(* Model of generate_testbench/parse_dut.py (class ParseDut).              *)
(*                                                                         *)
(* A Python str is modelled as a sequence of one-character strings, a      *)
(* Python list as a sequence, None as the one-element sequence <<"None">>  *)
(* (no str, since every element of a str has length one).                  *)
(***************************************************************************)
EXTENDS Integers, Sequences, FiniteSets

VARIABLES
  dut,                  \* self.dut: the text of the DUT file
  raw_parameter_list,   \* self.raw_parameter_list
  parameter_dict_list,  \* self.parameter_dict_list
  raw_port_list,        \* self.raw_port_list
  parameter_block,      \* self.raw_parameter_list[0] as line 54 leaves it (None: no match)
  port_block,           \* self.raw_port_list[0] as line 95 leaves it (None: no match)
  port_dict_list,       \* self.port_dict_list
  pc,                   \* position in parse_dut
  err,                  \* how the run ended abnormally, "none" otherwise
  reported              \* the token printed with the error message

vars == << dut, raw_parameter_list, parameter_dict_list, raw_port_list,
           parameter_block, port_block, port_dict_list, pc, err, reported >>

None == << "None" >>

(***************************************************************************)
(* Python str and re primitives, as the source uses them                   *)
(***************************************************************************)

\* the characters matched by \s and removed by str.strip()
IsSpace(c) == c \in { " ", "\t", "\n", "\r" }

RECURSIVE str_lstrip(_)
str_lstrip(s) ==
  IF s = << >> THEN << >>
  ELSE IF IsSpace(Head(s)) THEN str_lstrip(Tail(s)) ELSE s

RECURSIVE str_rstrip(_)
str_rstrip(s) ==
  IF s = << >> THEN << >>
  ELSE IF IsSpace(s[Len(s)]) THEN str_rstrip(SubSeq(s, 1, Len(s) - 1)) ELSE s

\* parameter.strip()
str_strip(s) == str_rstrip(str_lstrip(s))

\* re.sub( r'\s+', ' ', s ): every maximal run of whitespace becomes one space
RECURSIVE re_sub_whitespace(_)
re_sub_whitespace(s) ==
  IF s = << >> THEN << >>
  ELSE IF IsSpace(Head(s)) THEN << " " >> \o re_sub_whitespace(str_lstrip(s))
  ELSE << Head(s) >> \o re_sub_whitespace(Tail(s))

StartsWith(s, p) == Len(s) >= Len(p) /\ SubSeq(s, 1, Len(p)) = p

\* s.replace( old, new ): non-overlapping occurrences, left to right
RECURSIVE str_replace(_, _, _)
str_replace(s, old, new) ==
  IF s = << >> THEN << >>
  ELSE IF StartsWith(s, old)
       THEN new \o str_replace(SubSeq(s, Len(old) + 1, Len(s)), old, new)
       ELSE << Head(s) >> \o str_replace(Tail(s), old, new)

\* c in s, for a one-character c
str_contains(s, c) == \E i \in 1..Len(s) : s[i] = c

FirstIndex(s, c) == CHOOSE i \in 1..Len(s) : s[i] = c /\ \A j \in 1..(i - 1) : s[j] # c
LastIndex(s, c)  == CHOOSE i \in 1..Len(s) : s[i] = c /\ \A j \in (i + 1)..Len(s) : s[j] # c

\* s.split( c ) for a one-character separator: always at least one element
RECURSIVE str_split(_, _)
str_split(s, c) ==
  IF ~ str_contains(s, c) THEN << s >>
  ELSE LET i == FirstIndex(s, c)
       IN  << SubSeq(s, 1, i - 1) >> \o str_split(SubSeq(s, i + 1, Len(s)), c)

\* x in list
list_contains(list, x) == \E i \in 1..Len(list) : list[i] = x

(***************************************************************************)
(* remove_list_whitespace                                                  *)
(***************************************************************************)
remove_list_whitespace(raw_list) ==
  [ index \in 1..Len(raw_list) |-> re_sub_whitespace(str_strip(raw_list[index])) ]

(***************************************************************************)
(* get_port_dict                                                           *)
(***************************************************************************)
kw_input  == << "i", "n", "p", "u", "t" >>
kw_output == << "o", "u", "t", "p", "u", "t" >>
kw_inout  == << "i", "n", "o", "u", "t" >>
kw_logic  == << "l", "o", "g", "i", "c" >>
kw_wire   == << "w", "i", "r", "e" >>
kw_tri    == << "t", "r", "i" >>

port_directions == << kw_input, kw_output, kw_inout >>
port_types      == << kw_logic, kw_wire, kw_tri >>

\* re.sub( r'\]\s+\[', '][', line )
RECURSIVE re_sub_brackets(_)
re_sub_brackets(s) ==
  IF s = << >> THEN << >>
  ELSE LET rest == str_lstrip(Tail(s))
       IN  IF /\ Head(s) = "]"
              /\ Len(rest) < Len(s) - 1
              /\ rest # << >>
              /\ Head(rest) = "["
           THEN << "]", "[" >> \o re_sub_brackets(Tail(rest))
           ELSE << Head(s) >> \o re_sub_brackets(Tail(s))

\* re.findall( r'\[.*\]', line, re.DOTALL ): greedy, so the one match runs from
\* the first '[' to the last ']' of the line; no match when no ']' follows a '['
re_findall_dimension(line) ==
  IF /\ str_contains(line, "[")
     /\ str_contains(line, "]")
     /\ FirstIndex(line, "[") < LastIndex(line, "]")
  THEN << SubSeq(line, FirstIndex(line, "["), LastIndex(line, "]")) >>
  ELSE << >>

\* ''.join( list )
RECURSIVE str_join(_)
str_join(list) == IF list = << >> THEN << >> ELSE Head(list) \o str_join(Tail(list))

\* lines 120-125: the line after the bracket substitution, and self.line_dimension
line_formatted(line) ==
  IF str_contains(line, "[") THEN re_sub_brackets(line) ELSE line

\* line_dimension without the substitution of line 121
line_dimension_unformatted(line) ==
  IF str_contains(line, "[")
  THEN str_join(re_findall_dimension(line))
  ELSE None

line_dimension(line) ==
  IF str_contains(line, "[")
  THEN str_join(re_findall_dimension(re_sub_brackets(line)))
  ELSE None

any_in(vocabulary, words) ==
  \E k \in 1..Len(vocabulary) : list_contains(words, vocabulary[k])

\* one iteration of the loop of get_port_dict: the record appended, or the error
port_entry(entry) ==
  LET words == str_split(line_formatted(entry), " ")
  IN  IF ~ any_in(port_directions, words)
      THEN [ err |-> "InvalidDirection", reported |-> words[1] ]
      ELSE IF ~ any_in(port_types, words)
      THEN IF Len(words) < 2
           THEN [ err |-> "IndexError", reported |-> None ]
           ELSE [ err |-> "InvalidSignalType", reported |-> words[2] ]
      ELSE [ err |-> "none", reported |-> None,
             port |-> [ name      |-> words[Len(words)],
                        direction |-> words[1],
                        type      |-> words[2],
                        dimension |-> line_dimension(entry) ] ]

\* the loop of get_port_dict: records accumulate until an entry fails
RECURSIVE port_loop(_, _)
port_loop(list, acc) ==
  IF list = << >> THEN [ err |-> "none", reported |-> None, ports |-> acc ]
  ELSE LET r == port_entry(Head(list))
       IN  IF r.err # "none"
           THEN [ err |-> r.err, reported |-> r.reported, ports |-> acc ]
           ELSE port_loop(Tail(list), Append(acc, r.port))

get_port_dict(list) == port_loop(list, << >>)

GetPortDict ==
  /\ pc = "raw_ports"
  /\ LET r == get_port_dict(raw_port_list)
     IN  /\ port_dict_list' = r.ports
         /\ err' = r.err
         /\ reported' = r.reported
         /\ pc' = IF r.err = "none" THEN "done" ELSE "exit"
  /\ UNCHANGED << dut, raw_parameter_list, parameter_dict_list, raw_port_list,
                  parameter_block, port_block >>


(***************************************************************************)
(* get_raw_parameter_list                                                  *)
(***************************************************************************)
kw_parameter_sp == << "p", "a", "r", "a", "m", "e", "t", "e", "r", " " >>
newline_sp      == << "\n", " " >>

\* the positions of a "#(" that a ")" follows
HashParens(s) ==
  { i \in 1..(Len(s) - 1) :
      /\ s[i] = "#"
      /\ s[i + 1] = "("
      /\ \E j \in (i + 2)..Len(s) : s[j] = ")" }

Least(S) == CHOOSE x \in S : \A y \in S : x <= y

\* re.findall( r'#\((.*?)\)', self.dut, re.DOTALL ), cut to its first match (the
\* only one the method reads): non-greedy, so the group of the leftmost "#(" ends
\* at the first ")" after it
re_findall_parameters(s) ==
  IF HashParens(s) = {} THEN << >>
  ELSE LET i == Least(HashParens(s))
           j == Least({ k \in (i + 2)..Len(s) : s[k] = ")" })
       IN  << SubSeq(s, i + 2, j - 1) >>

\* lines 56-62
get_raw_parameter_list(s) ==
  LET found == re_findall_parameters(s)
  IN  IF found # << >>
      THEN remove_list_whitespace(
             str_split(
               str_strip(str_replace(str_replace(found[1], newline_sp, << >>),
                                     kw_parameter_sp, << >>)),
               ","))
      ELSE remove_list_whitespace(<< >>)

GetRawParameterList ==
  /\ pc = "start"
  /\ parameter_block' = IF re_findall_parameters(dut) = << >> THEN None
                        ELSE re_findall_parameters(dut)[1]
  /\ raw_parameter_list' = get_raw_parameter_list(dut)
  /\ pc' = "raw_params"
  /\ UNCHANGED << dut, parameter_dict_list, raw_port_list, port_block,
                  port_dict_list, err, reported >>

(***************************************************************************)
(* get_parameter_dict                                                      *)
(***************************************************************************)
\* one iteration of the loop of get_parameter_dict
parameter_entry(parameter) ==
  IF str_contains(parameter, "=")
  THEN LET parts == str_split(parameter, "=")
       IN  [ name |-> str_strip(parts[1]), value |-> str_strip(parts[2]) ]
  ELSE [ name |-> str_strip(parameter), value |-> None ]

get_parameter_dict(list) ==
  [ index \in 1..Len(list) |-> parameter_entry(list[index]) ]

GetParameterDict ==
  /\ pc = "raw_params"
  /\ parameter_dict_list' = get_parameter_dict(raw_parameter_list)
  /\ pc' = "params"
  /\ UNCHANGED << dut, raw_parameter_list, raw_port_list, parameter_block,
                  port_block, port_dict_list, err, reported >>

(***************************************************************************)
(* get_raw_port_list                                                       *)
(***************************************************************************)
\* the positions of a "(" that no "#" precedes and that a ")" follows
PlainParens(s) ==
  { i \in 1..Len(s) :
      /\ s[i] = "("
      /\ (i = 1 \/ s[i - 1] # "#")
      /\ \E j \in (i + 1)..Len(s) : s[j] = ")" }

\* where the match of r'(?<!#)\((.*)\)' starts (0: no match)
port_block_start(s) == IF PlainParens(s) = {} THEN 0 ELSE Least(PlainParens(s))

\* re.findall( r'(?<!#)\((.*)\)', self.dut, re.DOTALL ): greedy, so the group of
\* the leftmost such "(" runs to the last ")" of the text, and it is the only match
re_findall_ports(s) ==
  IF PlainParens(s) = {} THEN << >>
  ELSE << SubSeq(s, port_block_start(s) + 1, LastIndex(s, ")") - 1) >>

\* lines 96-99
get_raw_port_list(s) ==
  remove_list_whitespace(
    str_split(str_replace(re_findall_ports(s)[1], newline_sp, << >>), ","))

GetRawPortList ==
  /\ pc = "params"
  /\ IF re_findall_ports(dut) = << >>
     THEN \* self.raw_port_list[0] raises IndexError
          /\ raw_port_list' = << >>
          /\ port_block' = None
          /\ err' = "IndexError"
          /\ pc' = "exit"
     ELSE /\ raw_port_list' = get_raw_port_list(dut)
          /\ port_block' = re_findall_ports(dut)[1]
          /\ err' = "none"
          /\ pc' = "raw_ports"
  /\ UNCHANGED << dut, raw_parameter_list, parameter_dict_list, parameter_block,
                  port_dict_list, reported >>

(***************************************************************************)
(* Inputs                                                                  *)
(***************************************************************************)
MaxWords    == 3
MaxGroups   == 2
MaxGap      == 2
MaxChunks   == 5
MaxParams   == 2
MaxPorts    == 2

SeqsUpTo(S, n) == UNION { [ 1..k -> S ] : k \in 0..n }

Spaces(k) == [ i \in 1..k |-> " " ]

RECURSIVE JoinWith(_, _)
JoinWith(list, sep) ==
  IF list = << >> THEN << >>
  ELSE IF Len(list) = 1 THEN list[1]
  ELSE list[1] \o sep \o JoinWith(Tail(list), sep)

\* ---- port entries handed to get_port_dict
PortWords  == { kw_input, kw_logic, << "x" >> }
GroupTexts == { << "[", "3", ":", "0", "]" >>, << "[", "7", ":", "0", "]" >> }
Heads      == { << >>, << kw_input >>, << kw_input, kw_logic >>, << kw_logic, kw_input >>,
                << kw_input, kw_logic, << "x" >> >> }
Tails      == { << >>, << << "x" >> >> }
GoodEntry  == << "i", "n", "p", "u", "t", " ", "l", "o", "g", "i", "c", " ", "x" >>

\* the whitespace between two bracket groups: up to MaxGap spaces, or a tab
GapTexts == { Spaces(k) : k \in 0..MaxGap } \cup { << "\t" >> }

\* bracket groups gs, with gaps[i] between group i and group i+1
RECURSIVE DimBlock(_, _)
DimBlock(gs, gaps) ==
  IF Len(gs) = 1 THEN gs[1]
  ELSE gs[1] \o gaps[1] \o DimBlock(Tail(gs), Tail(gaps))

PortEntry(head, gs, gaps, tail) ==
  JoinWith(head \o (IF gs = << >> THEN << >> ELSE << DimBlock(gs, gaps) >>) \o tail,
           << " " >>)

\* entries of words alone, and entries with a block of bracket groups
WordEntries == { JoinWith(h, << " " >>) : h \in SeqsUpTo(PortWords, MaxWords) }

DimEntries ==
  UNION { { PortEntry(h, gs, gaps, t) :
              h \in Heads,
              gaps \in [ 1..(Len(gs) - 1) -> GapTexts ],
              t \in Tails } :
          gs \in SeqsUpTo(GroupTexts, MaxGroups) \ { << >> } }

PortLists ==
  { << e >> : e \in WordEntries \cup DimEntries }
    \cup { << GoodEntry, e >> : e \in WordEntries }

InitPort ==
  /\ dut = << >>
  /\ raw_parameter_list = << >>
  /\ parameter_dict_list = << >>
  /\ parameter_block = None
  /\ port_block = None
  /\ raw_port_list \in PortLists
  /\ port_dict_list = << >>
  /\ pc = "raw_ports"
  /\ err = "none"
  /\ reported = None

NextPort == GetPortDict

SpecPort == InitPort /\ [][NextPort]_vars

\* ---- parameter entries handed to get_parameter_dict
ParamChunks == { << "W" >>, << "=" >>, << " " >>, << "8" >> }

ParamEntries == { str_join(cs) : cs \in SeqsUpTo(ParamChunks, MaxChunks) }

InitParam ==
  /\ dut = << >>
  /\ raw_parameter_list \in { << e >> : e \in ParamEntries }
  /\ parameter_dict_list = << >>
  /\ parameter_block = None
  /\ port_block = None
  /\ raw_port_list = << >>
  /\ port_dict_list = << >>
  /\ pc = "raw_params"
  /\ err = "none"
  /\ reported = None

NextParam == GetParameterDict

SpecParam == InitParam /\ [][NextParam]_vars

\* ---- texts of DUT files handed to parse_dut
ParamDecls ==
  { << "W" >>,
    << "W", " ", "=", " ", "8" >>,
    << "p", "a", "r", "a", "m", "e", "t", "e", "r", " ", "D", " ", "=", " ", "8" >>,
    << "p", "a", "r", "a", "m", "e", "t", "e", "r", " ", "i", "n", "t", " ", "W", " ", "=", " ", "8" >>,
    << "W", " ", "=", " ", "(", "8", "+", "8", ")" >>,
    << "D", " ", "=", " ", "f", "(", "a", ",", "b", ")" >> }

PortDecls ==
  { << "i", "n", "p", "u", "t", " ", "l", "o", "g", "i", "c", " ", "x" >>,
    << "o", "u", "t", "p", "u", "t", " ", "l", "o", "g", "i", "c", " ", "[", "3", ":", "0", "]", " ", "y" >>,
    << "i", "n", "p", "u", "t", " ", "l", "o", "g", "i", "c", " ", "[", "f", "(", "a", ",", "b", ")", ":", "0", "]", " ", "z" >> }

Separators == { << "," >>, << ",", "\n", " ", " " >> }
Trailers   == { << ";" >>, << ";", "\n", "f", "(", "x", ")", ";" >> }
ModuleHead == << "m", "o", "d", "u", "l", "e", " ", "m", " " >>

\* "( e1, e2 )", and "()" for no entry
Parenthesized(entries, sep) ==
  IF entries = << >> THEN << "(", ")" >>
  ELSE << "(", " " >> \o JoinWith(entries, sep) \o << " ", ")" >>

ParameterParts(sep) ==
  { << >> } \cup
  { << "#" >> \o Parenthesized(ps, sep) \o << " " >> : ps \in SeqsUpTo(ParamDecls, MaxParams) }

PortParts(sep) ==
  { << >> } \cup { Parenthesized(qs, sep) : qs \in SeqsUpTo(PortDecls, MaxPorts) }

DutTexts ==
  UNION { { ModuleHead \o p \o q \o t :
              p \in ParameterParts(sep), q \in PortParts(sep), t \in Trailers } :
          sep \in Separators }

Init ==
  /\ dut \in DutTexts
  /\ raw_parameter_list = << >>
  /\ parameter_dict_list = << >>
  /\ parameter_block = None
  /\ port_block = None
  /\ raw_port_list = << >>
  /\ port_dict_list = << >>
  /\ pc = "start"
  /\ err = "none"
  /\ reported = None

\* parse_dut: the four calls in order
Next ==
  \/ GetRawParameterList
  \/ GetParameterDict
  \/ GetRawPortList
  \/ GetPortDict

Spec == Init /\ [][Next]_vars

(***************************************************************************)
(* Reference notions the properties are stated with                        *)
(***************************************************************************)
DirectionSet == { port_directions[k] : k \in 1..Len(port_directions) }
TypeSet      == { port_types[k] : k \in 1..Len(port_types) }

Count(s, S, k) == Cardinality({ j \in 1..(k - 1) : s[j] \in S })

\* parenthesis depth in front of position k
ParenDepth(s, k) == Count(s, { "(" }, k) - Count(s, { ")" }, k)

\* depth over parentheses and brackets in front of position k
NestDepth(s, k) == Count(s, { "(", "[" }, k) - Count(s, { ")", "]" }, k)

\* the ")" matching, by depth, the "(" at position i
Matches(s, i) ==
  { j \in (i + 1)..Len(s) :
      /\ s[j] = ")"
      /\ ParenDepth(s, j + 1) = ParenDepth(s, i)
      /\ \A m \in (i + 1)..(j - 1) : ParenDepth(s, m + 1) > ParenDepth(s, i) }

HasMatch(s, i) == Matches(s, i) # {}
MatchOf(s, i)  == Least(Matches(s, i))
Between(s, i)  == SubSeq(s, i + 1, MatchOf(s, i) - 1)

HashParenStarts(s) == { i \in 1..(Len(s) - 1) : s[i] = "#" /\ s[i + 1] = "(" }
PlainParenStarts(s) == { i \in 1..Len(s) : s[i] = "(" /\ (i = 1 \/ s[i - 1] # "#") }

\* the "(" of the port list: the first one outside every parenthesis that no "#" precedes
MainParens(s) == { i \in PlainParenStarts(s) : ParenDepth(s, i) = 0 }

InsideParameterBlock(s, k) ==
  /\ HashParenStarts(s) # {}
  /\ LET i == Least(HashParenStarts(s)) + 1
     IN  HasMatch(s, i) /\ i < k /\ k < MatchOf(s, i)

DepthZeroCommas(s) ==
  Cardinality({ k \in 1..Len(s) : s[k] = "," /\ NestDepth(s, k) = 0 })

HasSubstring(s, p) == \E i \in 1..(Len(s) - Len(p) + 1) : SubSeq(s, i, i + Len(p) - 1) = p

\* bracket groups of a port entry: the k-th "[" and the k-th "]"
Opens(e)  == { i \in 1..Len(e) : e[i] = "[" }
Closes(e) == { i \in 1..Len(e) : e[i] = "]" }
Nth(S, k) == CHOOSE x \in S : Cardinality({ y \in S : y < x }) = k - 1
NumGroups(e) == Cardinality(Opens(e))

\* N >= 1 groups "[...]", none nested, only whitespace between one and the next
AdjacentGroups(e) ==
  /\ NumGroups(e) >= 1
  /\ Cardinality(Closes(e)) = NumGroups(e)
  /\ \A k \in 1..NumGroups(e) : Nth(Opens(e), k) < Nth(Closes(e), k)
  /\ \A k \in 1..(NumGroups(e) - 1) :
       /\ Nth(Closes(e), k) < Nth(Opens(e), k + 1)
       /\ \A j \in (Nth(Closes(e), k) + 1)..(Nth(Opens(e), k + 1) - 1) : IsSpace(e[j])

RECURSIVE GroupsFrom(_, _)
GroupsFrom(e, k) ==
  IF k > NumGroups(e) THEN << >>
  ELSE SubSeq(e, Nth(Opens(e), k), Nth(Closes(e), k)) \o GroupsFrom(e, k + 1)

JoinedGroups(e) == GroupsFrom(e, 1)

NonEmpty(t) == t # << >>
WhitespaceTokens(s) == SelectSeq(str_split(re_sub_whitespace(s), " "), NonEmpty)

\* a port entry with its dimension substring removed
WithoutDimension(e) ==
  LET f == line_formatted(e)
  IN  IF re_findall_dimension(f) = << >> THEN f
      ELSE SubSeq(f, 1, FirstIndex(f, "[") - 1) \o SubSeq(f, LastIndex(f, "]") + 1, Len(f))

LastToken(s) ==
  IF WhitespaceTokens(s) = << >> THEN << >>
  ELSE WhitespaceTokens(s)[Len(WhitespaceTokens(s))]

\* the word list get_port_dict classifies an entry by
Words(e) == str_split(line_formatted(e), " ")

(***************************************************************************)
(* Properties                                                              *)
(***************************************************************************)

\* C1: every port record get_port_dict produces has its direction in
\* {input, output, inout} and its type in {logic, wire, tri}.
C1_ClosedVocabulary ==
  \A i \in 1..Len(port_dict_list) :
    /\ port_dict_list[i].direction \in DirectionSet
    /\ port_dict_list[i].type \in TypeSet

\* C2: a declaration whose port list is the explicit empty "()" yields an empty
\* port sequence and no error.
C2_EmptyPortList ==
  ( /\ pc \in { "done", "exit" }
    /\ MainParens(dut) # {}
    /\ HasMatch(dut, Least(MainParens(dut)))
    /\ Between(dut, Least(MainParens(dut))) = << >> )
  => ( pc = "done" /\ err = "none" /\ port_dict_list = << >> )

\* C3: the parameter block taken is the text between the first "#(" and the ")"
\* that matches it by parenthesis depth.
C3_ParameterBlockByDepth ==
  ( /\ pc # "start"
    /\ HashParenStarts(dut) # {}
    /\ HasMatch(dut, Least(HashParenStarts(dut)) + 1) )
  => parameter_block = Between(dut, Least(HashParenStarts(dut)) + 1)

\* C4: the port block taken is the text between the first "(" that no "#"
\* precedes and the ")" matching it by depth; it does not start inside the
\* parameter block and does not run on to a later ")".
C4_PortBlockByDepth ==
  ( /\ pc \in { "raw_ports", "done", "exit" }
    /\ port_block # None )
  => /\ HasMatch(dut, Least(PlainParenStarts(dut)))
     /\ port_block = Between(dut, Least(PlainParenStarts(dut)))
     /\ ~ InsideParameterBlock(dut, port_block_start(dut))

\* C5: a non-empty block is split only at its commas at bracket/parenthesis
\* depth 0, so it has as many entries as depth-0 commas plus one.
C5_SplitAtDepthZeroCommas ==
  /\ ( pc = "raw_params" /\ parameter_block # None /\ parameter_block # << >> )
     => Len(raw_parameter_list) = DepthZeroCommas(parameter_block) + 1
  /\ ( pc = "raw_ports" /\ port_block # None /\ port_block # << >> )
     => Len(raw_port_list) = DepthZeroCommas(port_block) + 1

\* C6: an entry with "=" is split at its first "=" only: the name is the trimmed
\* text left of it, the value the whole trimmed text right of it; an entry
\* without "=" gives its trimmed text as the name and no value.
C6_SplitAtFirstEquals ==
  pc = "params" =>
    \A i \in 1..Len(raw_parameter_list) :
      LET p == raw_parameter_list[i]
          d == parameter_dict_list[i]
      IN  IF str_contains(p, "=")
          THEN /\ d.name = str_strip(SubSeq(p, 1, FirstIndex(p, "=") - 1))
               /\ d.value = str_strip(SubSeq(p, FirstIndex(p, "=") + 1, Len(p)))
          ELSE /\ d.name = str_strip(p)
               /\ d.value = None

\* C7: a parameter name never contains the keyword "parameter" or the type
\* keyword ("int") of its declaration.
C7_NameWithoutKeywordOrType ==
  \A i \in 1..Len(parameter_dict_list) :
    /\ ~ HasSubstring(parameter_dict_list[i].name,
                      << "p", "a", "r", "a", "m", "e", "t", "e", "r" >>)
    /\ ~ HasSubstring(parameter_dict_list[i].name, << "i", "n", "t" >>)

\* C8: the dimension of a port record whose entry has N >= 1 adjacent bracket
\* groups is those groups concatenated with no whitespace between them; the
\* dimension of a record whose entry has no "[" is absent.
C8_DimensionNormalized ==
  \A i \in 1..Len(port_dict_list) :
    /\ AdjacentGroups(raw_port_list[i])
         => port_dict_list[i].dimension = JoinedGroups(raw_port_list[i])
    /\ ~ str_contains(raw_port_list[i], "[")
         => port_dict_list[i].dimension = None

\* a record whose entry has two bracket groups two or more spaces apart
C8_Witness ==
  /\ pc = "done"
  /\ \E i \in 1..Len(port_dict_list) :
       LET e == raw_port_list[i]
       IN  /\ AdjacentGroups(e)
           /\ NumGroups(e) = 2
           /\ Nth(Opens(e), 2) - Nth(Closes(e), 1) > 2
           /\ port_dict_list[i].dimension = JoinedGroups(e)
           /\ port_dict_list[i].dimension # None

\* C9: an entry with a direction word and no type word ends in the
\* invalid-signal-type error, which reports its second word when it has one,
\* and no record is produced for it.
C9_InvalidSignalType ==
  pc # "raw_ports" =>
    \A k \in 1..Len(raw_port_list) :
      ( /\ any_in(port_directions, Words(raw_port_list[k]))
        /\ ~ any_in(port_types, Words(raw_port_list[k])) )
      => /\ Len(port_dict_list) < k
         /\ k = Len(port_dict_list) + 1
              => /\ err = "InvalidSignalType"
                 /\ Len(Words(raw_port_list[k])) >= 2
                      => reported = Words(raw_port_list[k])[2]

\* C10: the name of a port record is the last token of its entry with the
\* dimension substring removed, so it holds no part of a bracket group.
C10_NameAfterDimensionRemoved ==
  \A i \in 1..Len(port_dict_list) :
    /\ port_dict_list[i].name = LastToken(WithoutDimension(raw_port_list[i]))
    /\ ~ str_contains(port_dict_list[i].name, "[")
    /\ ~ str_contains(port_dict_list[i].name, "]")

====
